---- MODULE Spec2Model ----
(***************************************************************************)
(* Model of gradio_demo.py: the two button handlers of the demo            *)
(* (conversation, make_voices) and the asyncio pipeline play_history       *)
(* that synthesizes every line of a reply concurrently and then plays the  *)
(* clips one after the other.                                              *)
(*                                                                         *)
(* A Python str is a sequence of one-character strings.  A thread of an    *)
(* executor, a task of the event loop and the handler thread are separate  *)
(* pieces of state; every action is one atomic step of one of them.        *)
(***************************************************************************)
EXTENDS Integers, Sequences, FiniteSets, Bags, TLC

\* ------------------------------------------------------------------ bounds
\* Largest number of lines in a generated reply.
MaxLines == 3

\* ------------------------------------------------------------- str helpers
None == << "None" >>
NL == "\n"
COLON == ":"

Range(s) == { s[i] : i \in 1..Len(s) }

\* s[i:] of Python for a 1-based i.
Tail_from(s, i) == SubSeq(s, i, Len(s))

\* Index of the first occurrence of the character c in s, 0 when absent.
find(s, c) ==
  IF c \in Range(s) THEN CHOOSE i \in 1..Len(s) : s[i] = c /\ \A j \in 1..(i-1) : s[j] # c
  ELSE 0

\* str.split(sep) for a one-character sep: always at least one part.
RECURSIVE split(_, _)
split(s, sep) ==
  IF find(s, sep) = 0 THEN << s >>
  ELSE << SubSeq(s, 1, find(s, sep) - 1) >> \o split(Tail_from(s, find(s, sep) + 1), sep)

\* str.splitlines(): no line for the empty string, none after a final newline.
RECURSIVE splitlines(_)
splitlines(s) ==
  IF s = << >> THEN << >>
  ELSE IF find(s, NL) = 0 THEN << s >>
  ELSE << SubSeq(s, 1, find(s, NL) - 1) >> \o splitlines(Tail_from(s, find(s, NL) + 1))

\* "\n".join(lines): how a reply of several lines is written.
RECURSIVE join_lines(_)
join_lines(ls) ==
  IF ls = << >> THEN << >>
  ELSE IF Len(ls) = 1 THEN ls[1]
  ELSE ls[1] \o << NL >> \o join_lines(Tail(ls))

\* All sequences over S of length at most n.
SeqUpTo(S, n) == UNION { [1..m -> S] : m \in 0..n }

\* ------------------------------------------------------------ module data
\* The persona names of voices.yaml.
NAMES == << << "a" >>, << "b" >> >>

COLORS == << "#FFA07A", "#F08080", "#AFEEEE", "#B0E0E6", "#DDA0DD",
             "#FFFFE0", "#F0E68C", "#90EE90", "#87CEFA", "#FFB6C1" >>

\* The lists a CheckboxGroup over NAMES can hand to conversation.
NameLists ==
  { ns \in SeqUpTo(Range(NAMES), Len(NAMES)) : \A i, j \in 1..Len(ns) : i # j => ns[i] # ns[j] }

\* Lines the text generation can answer with: a well-formed line of each
\* persona, an empty line, a line without colon, a line without text, a line
\* of an unknown name, a line whose text holds a colon.
GeneratedLines ==
  { << "a", ":", "x" >>,
    << "b", ":", "y" >>,
    << >>,
    << "a", "x" >>,
    << "a", ":" >>,
    << "z", ":", "x" >>,
    << "a", ":", "x", ":", "y" >> }

Responses == { join_lines(ls) : ls \in SeqUpTo(GeneratedLines, MaxLines) }

\* The request speech_to_text returns for the recorded audio.
Request == << "r" >>

\* ----------------------------------------------------- elevenlabs library
\* The voice handle of a registered name.
ElevenLabsVoice(name) == << "voice", name >>

\* check_voice_exists(name): the voice, or None when name is not registered.
check_voice_exists(name, registered) ==
  IF name \in registered THEN ElevenLabsVoice(name) ELSE None

\* text_to_speechbytes(text, voice): the encoded clip of a request.
text_to_speechbytes(text, voice) == << "mp3", text, voice >>

\* --------------------------------------------------------------- Speaker
Speaker(name, voice, color) == [name |-> name, voice |-> voice, color |-> color]

\* ----------------------------------------------- conversation, lines 66-75
\* The check of line 66 left out.
iam_unchecked(i_am, active) == TRUE

\* assert iam in names
iam_in_names(i_am, active) == i_am \in Range(active)

\* The loop over enumerate(names): the dict speakers after the i-th name, or
\* the name whose voice does not exist.
RECURSIVE build_speakers(_, _, _, _)
build_speakers(active, i, registered, spk) ==
  IF i > Len(active) THEN [ok |-> TRUE, speakers |-> spk, checked |-> Len(active)]
  ELSE IF check_voice_exists(active[i], registered) = None
       THEN [ok |-> FALSE, speakers |-> spk, checked |-> i]
  ELSE build_speakers(active, i + 1, registered,
         [n \in (DOMAIN spk) \cup { active[i] } |->
            IF n = active[i]
            THEN Speaker(active[i], ElevenLabsVoice(active[i]),
                         COLORS[((i - 1) % Len(COLORS)) + 1])
            ELSE spk[n]])

\* --------------------------------------------- conversation, lines 86-102
bubble(color, text) == [color |-> color, text |-> text]

\* line 104: ''.join(history_html), the document of the bubbles in order.
join_html(bubbles) == << "html", bubbles >>

\* One pass of the body of "for line in response.splitlines()".  st holds
\* history, history_html, the warnings logged and the exception that left
\* the loop ("" while none did).
parse_line(line, spk, st) ==
  IF line = << >> THEN st
  ELSE IF COLON \notin Range(line)
       THEN [st EXCEPT !.warnings = Append(@, "does not have a colon")]
  ELSE LET parts == split(line, COLON) IN
    IF Len(parts) # 2 THEN [st EXCEPT !.error = "ValueError"]
    ELSE LET name == parts[1]
             text == parts[2] IN
      IF name \notin Range(NAMES)
      THEN [st EXCEPT !.warnings = Append(@, "is not in NAMES")]
      ELSE IF name \notin DOMAIN spk THEN [st EXCEPT !.error = "KeyError"]
      ELSE IF Len(text) = 0
           THEN [st EXCEPT !.warnings = Append(@, "is empty")]
      ELSE [st EXCEPT !.history = Append(@, << spk[name], text >>),
                      !.history_html = Append(@, bubble(spk[name].color, text))]

RECURSIVE parse_lines(_, _, _)
parse_lines(lines, spk, st) ==
  IF lines = << >> \/ st.error # "" THEN st
  ELSE parse_lines(Tail(lines), spk, parse_line(Head(lines), spk, st))

\* ------------------------------------------------------------------ state
VARIABLES
  voices,        \* names registered with the synthesis service
  handler,       \* the handler the user interface called last
  pc,            \* where the handler thread stands
  error,         \* the exception the handler ended with, "" when none
  result,        \* what the handler returned to the user interface
  names, iam,    \* the arguments of conversation
  speakers,      \* dict name -> Speaker
  response,      \* the generated reply
  history,       \* list of (speaker, text)
  history_html,  \* list of bubbles
  warnings,      \* what log.warning was called with
  calls,         \* the collaborators this call of conversation has called
  tasks,         \* the tasks gather made of the coroutines of line 57
  workers,       \* the work item of each task in its executor
  executors,     \* every ThreadPoolExecutor made, "open" or "shutdown"
  completed,     \* indices of the tasks in the order they returned
  gathered,      \* the future of asyncio.gather
  clips,         \* the list "await asyncio.gather" evaluates to
  synth_calls,   \* bag of the (text, voice) text_to_speechbytes was called with
  played,        \* clips handed to sd.play, in order
  playing,       \* index of the clip the device is sounding, 0 when silent
  finished,      \* indices of the clips that sounded to their end
  voice_dict,    \* the registry document make_voices loaded
  entry,         \* index of the item of voice_dict the loop is at
  extractions,   \* the arguments of every extract_audio of this call
  registrations, \* the arguments of every get_make_voice(name, paths) of this call
  voices0,       \* voices as this call of make_voices found them
  last_make      \* document and result of the call of make_voices just before

convVars == << names, iam, speakers, response, history, history_html, warnings, calls >>
pipeVars == << tasks, workers, executors, completed, gathered, clips, synth_calls,
               played, playing, finished >>
makeVars == << voice_dict, entry, extractions, registrations, voices0 >>
vars == << voices, handler, pc, error, result, convVars, pipeVars, makeVars, last_make >>

NoSpeakers == [n \in {} |-> None]
NoTasks == << >>

\* What a call of a handler starts from: no local is bound, no task exists.
FreshConv ==
  /\ speakers = NoSpeakers /\ response = << >> /\ history = << >>
  /\ history_html = << >> /\ warnings = << >> /\ calls = {}
FreshPipe ==
  /\ tasks = NoTasks /\ workers = << >> /\ executors = << >> /\ completed = << >>
  /\ gathered = "none" /\ clips = << >> /\ synth_calls = EmptyBag
  /\ played = << >> /\ playing = 0 /\ finished = {}
FreshMake ==
  /\ voice_dict = << >> /\ entry = 0 /\ extractions = << >> /\ registrations = << >>
  /\ voices0 = {}
EnterConv ==
  /\ speakers' = NoSpeakers /\ response' = << >> /\ history' = << >>
  /\ history_html' = << >> /\ warnings' = << >> /\ calls' = {}
EnterPipe ==
  /\ tasks' = NoTasks /\ workers' = << >> /\ executors' = << >> /\ completed' = << >>
  /\ gathered' = "none" /\ clips' = << >> /\ synth_calls' = EmptyBag
  /\ played' = << >> /\ playing' = 0 /\ finished' = {}

EnterMake ==
  /\ voice_dict' = << >> /\ entry' = 0 /\ extractions' = << >> /\ registrations' = << >>
  /\ voices0' = {}

NoCall == [doc |-> << >>, result |-> None, registered |-> 0]

Init ==
  /\ voices \in SUBSET Range(NAMES)
  /\ handler = "none" /\ pc = "idle" /\ error = "" /\ result = None
  /\ names = << >> /\ iam = None
  /\ FreshConv /\ FreshPipe /\ FreshMake
  /\ last_make = NoCall

\* The handler thread is free: nothing was called yet, or the last call ended.
Free == pc \in { "idle", "returned", "raised" }

\* ----------------------------------------------------------- conversation
\* gr_convo_button.click: gradio calls conversation(names, iam, ...).
click_conversation ==
  /\ Free
  /\ \E ns \in NameLists, me \in Range(NAMES) :
       /\ names' = ns /\ iam' = me
  /\ handler' = "conversation"
  /\ pc' = "line66" /\ error' = "" /\ result' = None
  /\ EnterConv /\ EnterPipe /\ EnterMake
  /\ last_make' = NoCall
  /\ UNCHANGED voices

\* line 66: assert iam in names
conversation_check_iam ==
  /\ pc = "line66"
  /\ IF iam_in_names(iam, names)
     THEN pc' = "line67" /\ error' = error
     ELSE pc' = "raised" /\ error' = "AssertionError"
  /\ UNCHANGED << voices, handler, makeVars, last_make, result, convVars, pipeVars >>

\* lines 67-75: the loop that fills speakers, one check_voice_exists and one
\* get_make_voice per name, left by the assert of the first missing voice.
conversation_speakers ==
  /\ pc = "line67"
  /\ LET b == build_speakers(names, 1, voices, NoSpeakers) IN
       /\ speakers' = b.speakers
       /\ calls' = calls \cup (IF b.checked > 0 THEN { "check_voice_exists" } ELSE {})
                         \cup (IF DOMAIN b.speakers # {} THEN { "get_make_voice" } ELSE {})
       /\ IF b.ok THEN pc' = "line76" /\ error' = error
          ELSE pc' = "raised" /\ error' = "AssertionError"
  /\ UNCHANGED << voices, handler, makeVars, last_make, result, names, iam, response, history, history_html,
                  warnings, pipeVars >>

\* lines 76-83: speech_to_text, the bubble of the request in the color of
\* speakers[iam], fake_conversation.
conversation_request ==
  /\ pc = "line76"
  /\ IF iam \in DOMAIN speakers
     THEN /\ \E r \in Responses : response' = r
          /\ history_html' = << bubble(speakers[iam].color, Request) >>
          /\ calls' = calls \cup { "speech_to_text", "fake_conversation" }
          /\ pc' = "line86" /\ error' = error
     ELSE /\ calls' = calls \cup { "speech_to_text" }
          /\ pc' = "raised" /\ error' = "KeyError"
          /\ UNCHANGED << response, history_html >>
  /\ UNCHANGED << voices, handler, makeVars, last_make, result, names, iam, speakers, history, warnings, pipeVars >>

\* lines 86-102: the loop over the lines of the reply.  An AssertionError is
\* logged and the line skipped; any other exception leaves conversation.
conversation_parse ==
  /\ pc = "line86"
  /\ LET st == parse_lines(splitlines(response), speakers,
                 [history |-> << >>, history_html |-> history_html,
                  warnings |-> << >>, error |-> ""]) IN
       /\ history' = st.history
       /\ history_html' = st.history_html
       /\ warnings' = st.warnings
       /\ IF st.error = "" THEN pc' = "line103" /\ error' = error
          ELSE pc' = "raised" /\ error' = st.error
  /\ UNCHANGED << voices, handler, makeVars, last_make, result, names, iam, speakers, response, calls, pipeVars >>

\* ------------------------------------------- play_history, lines 47-63
\* line 57: the coroutine text_to_speechbytes_async(text, speaker, loop) made
\* for the entry (speaker, text) of history.
coroutine(line) ==
  [state |-> "scheduled", text |-> line[2], speaker |-> line[1],
   executor |-> 0, result |-> None]

\* One executor made by the first request and used by the later ones.
SharedExecutor(made) == 1

\* line 48: the executor a request runs on is one made for it on the spot.
ThreadPoolExecutor(made) == Len(made) + 1

\* shutdown(wait=False): the with block is left whatever the thread does.
shutdown_nowait(work) == TRUE

\* line 48, leaving the with block: shutdown(wait=True) returns once the
\* thread of the executor has no work item in hand.
shutdown_joined(work) == work # "running"

\* The future done with the first child that returns, as the comment of line
\* 59 has it.
first_completed(ts) ==
  IF \E i \in DOMAIN ts : ts[i].state = "failed" THEN "exception"
  ELSE IF \E i \in DOMAIN ts : ts[i].state = "done" THEN "result"
  ELSE "pending"

\* gather(..., return_exceptions=True): a failed child is a result like another.
return_exceptions(ts) ==
  IF \A i \in DOMAIN ts : ts[i].state \in { "done", "failed" } THEN "result"
  ELSE "pending"

\* line 60: what the children make of the future of gather: the first
\* exception of a child, else the results once every child returned.
gather_outcome(ts) ==
  IF \E i \in DOMAIN ts : ts[i].state = "failed" THEN "exception"
  ELSE IF \A i \in DOMAIN ts : ts[i].state = "done" THEN "result"
  ELSE "pending"

\* The results in the order the children returned.
results_as_completed(ts, order) ==
  [k \in DOMAIN ts |-> IF k <= Len(order) THEN ts[order[k]].result ELSE None]

\* line 60: the list of results, in the order of the awaitables.
gather_results(ts, order) == [i \in DOMAIN ts |-> ts[i].result]

\* sd.play(..., blocking=False)
non_blocking == FALSE

\* line 63: sd.play(..., blocking=True)
blocking == TRUE

\* line 103, lines 54-60: asyncio.run runs play_history up to its await:
\* one coroutine per entry, all of them made tasks by gather.
play_history_start ==
  /\ pc = "line103"
  /\ tasks' = [i \in 1..Len(history) |-> coroutine(history[i])]
  /\ workers' = [i \in 1..Len(history) |-> "none"]
  /\ gathered' = gather_outcome(tasks')
  /\ pc' = "line60"
  /\ UNCHANGED << voices, handler, makeVars, last_make, error, result, convVars, executors, completed, clips,
                  synth_calls, played, playing, finished >>

\* lines 48-49: the first step of task i, in the order the tasks were made:
\* a new executor, the request submitted to it, the task suspended.
task_start(i) ==
  /\ i \in DOMAIN tasks
  /\ tasks[i].state = "scheduled"
  /\ \A j \in 1..(i-1) : tasks[j].state # "scheduled"
  /\ LET e == ThreadPoolExecutor(executors) IN
       /\ executors' = [x \in 1..(IF e > Len(executors) THEN e ELSE Len(executors)) |->
                          IF x = e THEN "open" ELSE executors[x]]
       /\ tasks' = [tasks EXCEPT ![i].state = "awaiting", ![i].executor = e]
  /\ workers' = [workers EXCEPT ![i] = "queued"]
  /\ UNCHANGED << voices, handler, makeVars, last_make, pc, error, result, convVars, completed, gathered, clips,
                  synth_calls, played, playing, finished >>

\* line 49, in the thread of the executor: the work item is taken up and
\* text_to_speechbytes(text, speaker.voice) called.
worker_run(i) ==
  /\ i \in DOMAIN workers
  /\ workers[i] = "queued"
  /\ workers' = [workers EXCEPT ![i] = "running"]
  /\ synth_calls' = synth_calls (+) SetToBag({ << tasks[i].text, tasks[i].speaker.voice >> })
  /\ calls' = calls \cup { "text_to_speechbytes" }
  /\ UNCHANGED << voices, handler, makeVars, last_make, pc, error, result, names, iam, speakers, response, history,
                  history_html, warnings, tasks, executors, completed, gathered, clips,
                  played, playing, finished >>

\* The synthesis request comes back with the clip, or fails.
worker_finish(i) ==
  /\ i \in DOMAIN workers
  /\ workers[i] = "running"
  /\ \E outcome \in { "ok", "err" } : workers' = [workers EXCEPT ![i] = outcome]
  /\ UNCHANGED << voices, handler, makeVars, last_make, pc, error, result, convVars, tasks, executors, completed,
                  gathered, clips, synth_calls, played, playing, finished >>

\* lines 49-50: the future of the request is done and the loop resumes task
\* i, after every task had its first step: the with block is left, the task
\* returns the clip or raises, and gather hears of it.
task_resume(i) ==
  /\ i \in DOMAIN tasks
  /\ tasks[i].state = "awaiting"
  /\ workers[i] \in { "ok", "err" }
  /\ \A j \in DOMAIN tasks : tasks[j].state # "scheduled"
  /\ shutdown_joined(workers[i])
  /\ tasks' = [tasks EXCEPT
                 ![i].state = IF workers[i] = "ok" THEN "done" ELSE "failed",
                 ![i].result = IF workers[i] = "ok"
                               THEN text_to_speechbytes(tasks[i].text, tasks[i].speaker.voice)
                               ELSE None]
  /\ executors' = [executors EXCEPT ![tasks[i].executor] = "shutdown"]
  /\ completed' = Append(completed, i)
  /\ gathered' = IF gathered = "pending" THEN gather_outcome(tasks') ELSE gathered
  /\ UNCHANGED << voices, handler, makeVars, last_make, pc, error, result, convVars, workers, clips, synth_calls,
                  played, playing, finished >>

\* line 60: play_history wakes up with the list of clips, or with the
\* exception of a request, which ends it.
gather_wakeup ==
  /\ pc = "line60"
  /\ gathered \in { "result", "exception" }
  /\ IF gathered = "result"
     THEN /\ clips' = gather_results(tasks, completed)
          /\ pc' = "line61" /\ error' = error
     ELSE /\ pc' = "ended" /\ error' = "SynthesisError"
          /\ clips' = clips
  /\ UNCHANGED << voices, handler, makeVars, last_make, result, convVars, tasks, workers, executors, completed,
                  gathered, synth_calls, played, playing, finished >>

\* lines 61-63: the next clip is decoded and handed to the device, which
\* drops whatever it was sounding.
play_clip ==
  /\ pc = "line61"
  /\ Len(played) < Len(clips)
  /\ played' = Append(played, clips[Len(played) + 1])
  /\ playing' = Len(played) + 1
  /\ calls' = calls \cup { "play" }
  /\ pc' = IF blocking THEN "line63" ELSE "line61"
  /\ UNCHANGED << voices, handler, makeVars, last_make, error, result, names, iam, speakers, response, history,
                  history_html, warnings, tasks, workers, executors, completed,
                  gathered, clips, synth_calls, finished >>

\* lines 61-63: decoding or the device raises.
play_fail ==
  /\ pc = "line61"
  /\ Len(played) < Len(clips)
  /\ pc' = "ended" /\ error' = "PlaybackError"
  /\ UNCHANGED << voices, handler, makeVars, last_make, result, convVars, pipeVars >>

\* The device reaches the end of the clip it is sounding.
device_finish ==
  /\ playing # 0
  /\ finished' = finished \cup { playing }
  /\ playing' = 0
  /\ UNCHANGED << voices, handler, makeVars, last_make, pc, error, result, convVars, tasks, workers, executors,
                  completed, gathered, clips, synth_calls, played >>

\* line 63: the blocking sd.play returns when the device is silent again.
sd_play_return ==
  /\ pc = "line63"
  /\ playing = 0
  /\ pc' = "line61"
  /\ UNCHANGED << voices, handler, makeVars, last_make, error, result, convVars, pipeVars >>

\* line 60: the loop over the clips is over, play_history returns.
play_history_return ==
  /\ pc = "line61"
  /\ Len(played) = Len(clips)
  /\ pc' = "ended"
  /\ UNCHANGED << voices, handler, makeVars, last_make, error, result, convVars, pipeVars >>

\* line 103: play_history ended, asyncio.run cancels every task that has not
\* returned.
cancel_all_tasks ==
  /\ pc = "ended"
  /\ tasks' = [i \in DOMAIN tasks |->
                 IF tasks[i].state = "awaiting"
                 THEN [tasks[i] EXCEPT !.state = "cancelling"] ELSE tasks[i]]
  /\ pc' = "closing"
  /\ UNCHANGED << voices, handler, makeVars, last_make, error, result, convVars, workers, executors, completed,
                  gathered, clips, synth_calls, played, playing, finished >>

\* lines 48-49: CancelledError reaches task i at its await; a work item no
\* thread took up is cancelled; leaving the with block waits for the thread.
task_cancelled(i) ==
  /\ i \in DOMAIN tasks
  /\ tasks[i].state = "cancelling"
  /\ shutdown_joined(workers[i])
  /\ tasks' = [tasks EXCEPT ![i].state = "cancelled"]
  /\ workers' = [workers EXCEPT ![i] = IF @ = "queued" THEN "cancelled" ELSE @]
  /\ executors' = [executors EXCEPT ![tasks[i].executor] = "shutdown"]
  /\ UNCHANGED << voices, handler, makeVars, last_make, pc, error, result, convVars, completed, gathered, clips,
                  synth_calls, played, playing, finished >>

\* line 103: every task is over, the loop is closed and asyncio.run returns
\* to conversation, or raises what play_history raised, which conversation
\* does not catch.
run_return ==
  /\ pc = "closing"
  /\ \A i \in DOMAIN tasks : tasks[i].state \in { "done", "failed", "cancelled" }
  /\ pc' = IF error = "" THEN "line104" ELSE "raised"
  /\ UNCHANGED << voices, handler, makeVars, last_make, error, result, convVars, pipeVars >>

\* line 104: return ''.join(history_html)
conversation_return ==
  /\ pc = "line104"
  /\ result' = join_html(history_html)
  /\ pc' = "returned"
  /\ UNCHANGED << voices, handler, makeVars, last_make, error, convVars, pipeVars >>

\* ------------------------------------------- make_voices, lines 107-129
DefaultStartMinute == 0
DefaultDuration == 120

Success == << "Success" >>

\* A video of the registry: a dict and the keys it has, or a value of
\* another type.
Video(has, url, start_minute, duration) ==
  [type |-> "dict", has |-> has, url |-> url, start_minute |-> start_minute,
   duration |-> duration]
Item(key, videos) == [key_type |-> "str", key |-> key, type |-> "list", videos |-> videos]

\* The documents the text box can hold once yaml.safe_load has read them: one
\* persona, two personas, a persona without videos, a video without url, a
\* persona whose value is no list, a key that is no string.
Docs ==
  { << Item(<< "a" >>, << Video({ "url" }, "u1", 0, 0) >>) >>,
    << Item(<< "a" >>, << Video({ "url" }, "u1", 0, 0) >>),
       Item(<< "b" >>, << Video({ "url", "start_minute", "duration" }, "u2", 1, 30),
                          Video({ "url" }, "u3", 0, 0) >>) >>,
    << Item(<< "b" >>, << >>) >>,
    << Item(<< "b" >>, << Video({ "url" }, "u2", 0, 0), Video({ "duration" }, "", 0, 30) >>) >>,
    << [key_type |-> "str", key |-> << "a" >>, type |-> "NoneType", videos |-> << >>] >>,
    << [key_type |-> "int", key |-> << "1" >>, type |-> "list", videos |-> << >>] >> }

\* dict.get(key, default)
get(video, key, default) == IF key \in video.has THEN video[key] ELSE default

\* extract_audio(url, label, start_minute, duration): the path of the sample.
extract_audio(url, label, start_minute, duration) == << "path" >> \o label

\* lines 116-124: the loop over enumerate(videos) from its i-th video on: the
\* extract_audio calls made, the paths collected, and whether an assert
\* ended the loop.
RECURSIVE extract_all(_, _, _, _)
extract_all(name, videos, i, acc) ==
  IF i > Len(videos) THEN acc
  ELSE IF videos[i].type # "dict" \/ "url" \notin videos[i].has
       THEN [acc EXCEPT !.ok = FALSE]
  ELSE LET label == << "audio", name, i - 1 >>
           call == << videos[i].url, label,
                      get(videos[i], "start_minute", DefaultStartMinute),
                      get(videos[i], "duration", DefaultDuration) >> IN
         extract_all(name, videos, i + 1,
           [acc EXCEPT !.calls = Append(@, call),
                       !.paths = Append(@, extract_audio(call[1], call[2], call[3], call[4]))])

\* The existence check of line 113 left out.
voice_always_missing(name, registered) == TRUE

\* line 113: "if check_voice_exists(name): continue" goes on to extract and
\* register only when the voice is missing.
voice_missing(name, registered) == check_voice_exists(name, registered) = None

\* gr_make_voice_button.click: gradio calls make_voices(voices_yaml); line
\* 109 loads the document.
click_make_voices ==
  /\ Free
  /\ \E d \in Docs : voice_dict' = d
  /\ handler' = "make_voices"
  /\ pc' = "line110" /\ error' = "" /\ result' = None
  /\ entry' = 1 /\ extractions' = << >> /\ registrations' = << >>
  /\ voices0' = voices
  /\ last_make' = IF handler = "make_voices" /\ pc = "returned"
                  THEN [doc |-> voice_dict, result |-> result,
                        registered |-> Len(registrations)]
                  ELSE NoCall
  /\ names' = << >> /\ iam' = None
  /\ EnterConv /\ EnterPipe
  /\ UNCHANGED voices

\* lines 110-125: one pass of the loop over the items of the document.
make_voices_item ==
  /\ pc = "line110"
  /\ entry <= Len(voice_dict)
  /\ LET item == voice_dict[entry] IN
       IF item.key_type # "str" \/ item.type # "list"
       THEN /\ pc' = "raised" /\ error' = "AssertionError"
            /\ UNCHANGED << voices, entry, extractions, registrations >>
       ELSE IF ~ voice_missing(item.key, voices)
       THEN /\ entry' = entry + 1
            /\ UNCHANGED << voices, pc, error, extractions, registrations >>
       ELSE LET x == extract_all(item.key, item.videos, 1,
                       [ok |-> TRUE, calls |-> << >>, paths |-> << >>]) IN
            /\ extractions' = extractions \o x.calls
            /\ IF x.ok
               THEN /\ registrations' = Append(registrations, << item.key, x.paths >>)
                    /\ voices' = voices \cup { item.key }
                    /\ entry' = entry + 1
                    /\ UNCHANGED << pc, error >>
               ELSE /\ pc' = "raised" /\ error' = "AssertionError"
                    /\ UNCHANGED << voices, entry, registrations >>
  /\ UNCHANGED << handler, result, convVars, pipeVars, voice_dict, voices0,
                  last_make >>

\* line 129: return "Success"
make_voices_return ==
  /\ pc = "line110"
  /\ entry > Len(voice_dict)
  /\ result' = Success
  /\ pc' = "returned"
  /\ UNCHANGED << voices, handler, error, convVars, pipeVars, makeVars,
                  last_make >>

Next ==
  \/ click_conversation
  \/ conversation_check_iam
  \/ conversation_speakers
  \/ conversation_request
  \/ conversation_parse
  \/ play_history_start
  \/ \E i \in DOMAIN tasks : task_start(i)
  \/ \E i \in DOMAIN workers : worker_run(i)
  \/ \E i \in DOMAIN workers : worker_finish(i)
  \/ \E i \in DOMAIN tasks : task_resume(i)
  \/ gather_wakeup
  \/ play_clip
  \/ play_fail
  \/ device_finish
  \/ sd_play_return
  \/ play_history_return
  \/ cancel_all_tasks
  \/ \E i \in DOMAIN tasks : task_cancelled(i)
  \/ run_return
  \/ conversation_return
  \/ click_make_voices
  \/ make_voices_item
  \/ make_voices_return

Spec == Init /\ [][Next]_vars

\* ============================================================ properties
InConversation == handler = "conversation"

\* The clip of the k-th entry of history.
ClipOf(k) == text_to_speechbytes(history[k][2], history[k][1].voice)

\* The bag of the requests (text, voice) of the entries of a history.
RECURSIVE requests_of(_)
requests_of(h) ==
  IF h = << >> THEN EmptyBag
  ELSE SetToBag({ << h[1][2], h[1][1].voice >> }) (+) requests_of(Tail(h))

SameBag(a, b) ==
  \A r \in BagToSet(a) \cup BagToSet(b) : CopiesIn(r, a) = CopiesIn(r, b)

\* asyncio.run(play_history(history)) has returned to conversation.
RunReturned == InConversation /\ pc \in { "line104", "returned" }

Running == { i \in DOMAIN workers : workers[i] = "running" }
Started == { i \in DOMAIN tasks : tasks[i].state # "scheduled" }

\* C1: play_history makes one synthesis request per entry of history, with the
\* text and the voice of that entry, and one playback per entry; the k-th
\* playback plays the clip of the k-th entry, whatever the order in which the
\* requests came back.  In every state the clips played are the clips of the
\* first entries in order and no request is made beyond those of the entries;
\* when asyncio.run has returned normally there are exactly N of each.
C1_PlaybackInInputOrder ==
  InConversation =>
    /\ Len(played) <= Len(history)
    /\ \A k \in 1..Len(played) : played[k] = ClipOf(k)
    /\ synth_calls \sqsubseteq requests_of(history)
    /\ RunReturned =>
         /\ Len(played) = Len(history)
         /\ BagCardinality(synth_calls) = Len(history)
         /\ SameBag(synth_calls, requests_of(history))

\* A turn of two or more different lines whose last request came back first
\* has returned with every clip played.
C1_Witness ==
  /\ InConversation /\ pc = "returned"
  /\ Len(history) >= 2 /\ ClipOf(1) # ClipOf(Len(history))
  /\ completed[1] = Len(history)
  /\ Len(played) = Len(history)

C3_OneClipAtATime ==
  InConversation =>
    /\ playing # 0 => playing = Len(played) /\ pc = "line63"
    /\ finished = 1..(Len(played) - (IF playing # 0 THEN 1 ELSE 0))
    /\ (pc \in { "ended", "closing" } /\ error = "") \/ RunReturned =>
         /\ playing = 0
         /\ finished = 1..Len(history)
    /\ result # None => playing = 0 /\ finished = 1..Len(history)

\* conversation has returned the HTML of a turn of two or more clips.
C3_Witness ==
  /\ InConversation /\ pc = "returned" /\ result = join_html(history_html)
  /\ Cardinality(finished) >= 2

SynthesisFailed == \E i \in DOMAIN workers : workers[i] = "err"

\* C4: once the request of an entry has failed, no clip is ever played, the
\* call never reaches the playback loop nor a normal return, no request is
\* made twice, and the call ends with the error of the request, which
\* conversation passes on.
C4_AllOrNothing ==
  (InConversation /\ SynthesisFailed) =>
    /\ played = << >> /\ playing = 0 /\ finished = {}
    /\ pc \in { "line60", "ended", "closing", "raised" }
    /\ pc \in { "ended", "closing", "raised" } => error = "SynthesisError"
    /\ result = None
    /\ synth_calls \sqsubseteq requests_of(history)

\* A turn ended with the error of a failed request although another request
\* had come back with its clip.
C4_Witness ==
  /\ InConversation /\ pc = "raised" /\ error = "SynthesisError"
  /\ \E i, j \in DOMAIN tasks :
       /\ workers[i] = "err" /\ tasks[i].state = "failed"
       /\ workers[j] = "ok" /\ tasks[j].state = "done"
  /\ played = << >>

\* C5: when asyncio.run has returned to conversation, normally or with an
\* error, every task of the call is over, no thread has a request queued or
\* in hand, and every executor made is shut down.
C5_NothingOutstanding ==
  (InConversation /\ pc \in { "line104", "returned", "raised" }) =>
    /\ \A i \in DOMAIN tasks :
         /\ tasks[i].state \in { "done", "failed", "cancelled" }
         /\ workers[i] \in { "ok", "err", "cancelled" }
    /\ \A e \in DOMAIN executors : executors[e] = "shutdown"

\* A turn ended with an error after a task was cancelled while its request
\* was in hand.
C5_Witness ==
  /\ InConversation /\ pc = "raised" /\ error = "SynthesisError"
  /\ \E i \in DOMAIN tasks : tasks[i].state = "cancelled" /\ workers[i] \in { "ok", "err" }

\* The loop over the lines of the reply has been run.
ParseRan == InConversation /\ "fake_conversation" \in calls /\ pc # "line86"

\* A line as the specification reads it: name before the first colon, text
\* after it.
line_name(line) == SubSeq(line, 1, find(line, COLON) - 1)
line_text(line) == Tail_from(line, find(line, COLON) + 1)
valid_line(line) ==
  /\ line # << >>
  /\ COLON \in Range(line)
  /\ line_name(line) \in Range(NAMES)
  /\ Len(line_text(line)) > 0

\* The persona of a name: the Speaker of the turn, and for a name that is
\* not active the one the loop of lines 68-75 would have made of it.
persona(name) ==
  IF name \in DOMAIN speakers THEN speakers[name]
  ELSE Speaker(name, ElevenLabsVoice(name), "")

RECURSIVE valid_history(_)
valid_history(lines) ==
  IF lines = << >> THEN << >>
  ELSE (IF valid_line(Head(lines))
        THEN << << persona(line_name(Head(lines))), line_text(Head(lines)) >> >>
        ELSE << >>) \o valid_history(Tail(lines))

\* C6: for every reply, the history conversation builds is the sequence of
\* its valid lines in order, a line being valid when it is not empty, has a
\* colon, names a persona of NAMES before its first colon and has text after
\* it; each is paired with the persona of its name and that text.
C6_HistoryIsTheValidLines ==
  ParseRan => history = valid_history(splitlines(response))

RECURSIVE count_nonempty(_)
count_nonempty(lines) ==
  IF lines = << >> THEN 0
  ELSE (IF Head(lines) # << >> THEN 1 ELSE 0) + count_nonempty(Tail(lines))

\* C7: whatever the lines of the reply, the loop over them ends without an
\* exception, every line that is not empty being appended to history or
\* logged as a warning, and the turn goes on to the playback.
C7_MalformedLinesNotFatal ==
  ParseRan =>
    /\ error \notin { "ValueError", "KeyError" }
    /\ Len(history) + Len(warnings) = count_nonempty(splitlines(response))

\* C8: a call of conversation whose iam is not among names ends with the
\* error of line 66 and has called no collaborator: no voice lookup, no
\* voice fetch, no transcription, no generation, no synthesis, no playback.
C8_ValidationBeforeCalls ==
  (InConversation /\ iam \notin Range(names)) =>
    /\ pc \in { "line66", "raised" }
    /\ pc = "raised" => error = "AssertionError"
    /\ calls = {}
    /\ tasks = << >> /\ synth_calls = EmptyBag /\ played = << >>

\* conversation has failed for an iam outside names although the voice of
\* every name exists.
C8_Witness ==
  /\ InConversation /\ pc = "raised" /\ error = "AssertionError"
  /\ iam \notin Range(names) /\ names # << >> /\ Range(names) \subseteq voices

well_formed(d) ==
  \A i \in 1..Len(d) :
    /\ d[i].key_type = "str" /\ d[i].type = "list"
    /\ \A v \in 1..Len(d[i].videos) :
         d[i].videos[v].type = "dict" /\ "url" \in d[i].videos[v].has

doc_names(d) == { d[i].key : i \in 1..Len(d) }

\* C9: for a well-formed document make_voices extracts audio and registers
\* only for the names whose voice did not exist, each once, and returns
\* "Success"; a call that finds every name provisioned, and so the second of
\* two calls with the same document, extracts nothing, registers nothing,
\* leaves the registered voices as they were and returns "Success".
C9_ProvisioningIdempotent ==
  (handler = "make_voices" /\ well_formed(voice_dict)) =>
    /\ pc # "raised"
    /\ \A r \in 1..Len(registrations) : registrations[r][1] \in doc_names(voice_dict) \ voices0
    /\ \A r, q \in 1..Len(registrations) : r # q => registrations[r][1] # registrations[q][1]
    /\ \A x \in 1..Len(extractions) : extractions[x][2][2] \notin voices0
    /\ voices = voices0 \cup { registrations[r][1] : r \in 1..Len(registrations) }
    /\ pc = "returned" =>
         /\ result = Success
         /\ doc_names(voice_dict) \subseteq voices
         /\ Len(registrations) = Cardinality(doc_names(voice_dict) \ voices0)
    /\ (pc = "returned" /\ doc_names(voice_dict) \subseteq voices0) =>
         extractions = << >> /\ registrations = << >> /\ voices = voices0
    /\ (last_make.doc = voice_dict /\ last_make.result = Success) =>
         /\ extractions = << >> /\ registrations = << >> /\ voices = voices0
         /\ pc = "returned" => result = Success

\* The second of two calls with the same document of two personas has
\* returned, the first having registered a voice.
C9_Witness ==
  /\ handler = "make_voices" /\ pc = "returned" /\ result = Success
  /\ Len(voice_dict) >= 2 /\ well_formed(voice_dict)
  /\ last_make.doc = voice_dict /\ last_make.result = Success /\ last_make.registered > 0
  /\ registrations = << >>

\* C10 as stated: one executor is made per call of play_history and every
\* request of the call runs on it.
C10_OneSharedPool ==
  InConversation =>
    /\ Len(executors) <= 1
    /\ \A i, j \in Started : tasks[i].executor = tasks[j].executor

\* C10 as amended: every request gets an executor of its own, made when its
\* task starts and shut down when its task ends, so a call makes as many
\* executors as it has started requests, N when it returns; before the call
\* there is none, and the requests in hand at one time are bounded by N alone.
C10_ExecutorPerRequest ==
  InConversation =>
    /\ Len(executors) = Cardinality(Started)
    /\ \A i \in Started : tasks[i].executor \in DOMAIN executors
    /\ \A i, j \in Started : i # j => tasks[i].executor # tasks[j].executor
    /\ \A i \in Started :
         executors[tasks[i].executor] = "open" <=> tasks[i].state \in { "awaiting", "cancelling" }
    /\ pc \in { "line66", "line67", "line76", "line86", "line103" } => executors = << >>
    /\ RunReturned => Len(executors) = Len(history)
    /\ Cardinality(Running) <= Len(history)

\* Every request of a turn of MaxLines lines is in hand at the same time, each
\* on its own executor.
C10_Witness ==
  /\ InConversation /\ Len(history) = MaxLines
  /\ Running = DOMAIN workers
  /\ Len(executors) = Len(history)

====
